---------------------------- MODULE Spec2Model ----------------------------
(***************************************************************************)
(* The game-state engine of the_snake.py: the main loop of main() with its *)
(* five steps per tick (handle_keys, Snake.update_direction, Snake.move,   *)
(* the apple check, the drawing), on pixel coordinates as in the source.   *)
(***************************************************************************)
EXTENDS Integers, Sequences, FiniteSets, TLC

VARIABLES
    screenSize,      \* <<SCREEN_WIDTH, SCREEN_HEIGHT>>, fixed at start-up
    positions,       \* Snake.positions, head first
    length,          \* Snake.length
    direction,       \* Snake.direction
    next_direction,  \* Snake.next_direction
    last,            \* Snake.last
    apple,           \* Apple.position
    screen,          \* the cells that are not background, as <<cell, colour>>
    pc,              \* the statement of main() that runs next
    tick,            \* history: what happened so far in the running tick
    ate,             \* history: the last apple check consumed the apple
    ticksLeft,       \* iterations of the loop still to run, or NoLimit
    unit             \* history of a run of UnitSpec: the events drained, the calls made

vars == <<screenSize, positions, length, direction, next_direction, last,
          apple, screen, pc, tick, ate, ticksLeft, unit>>

---------------------------------------------------------------------------
(* Bounds of the model *)

\* the grid is 2*HalfCols cells wide (the source: 32 = 2*16)
HalfCols == 2
\* the grid is 2*HalfRows cells high (the source: 24 = 2*12)
HalfRows == 2
\* a run stops where the snake would consume an apple with length = MaxLength
MaxLength == 4
\* at most MaxEvents events are waiting in the queue when handle_keys runs
MaxEvents == 2
\* the scenario of ScenarioSpec runs this many iterations of the loop
ScenarioTicks == 2
\* a run of UnitSpec makes this many iterations of the loop
UnitTicks == 3

NoLimit == 0 - 1

---------------------------------------------------------------------------
(* Constants of the program *)

GRID_SIZE == 20

SCREEN_WIDTH == screenSize[1]
SCREEN_HEIGHT == screenSize[2]
GRID_WIDTH == SCREEN_WIDTH \div GRID_SIZE
GRID_HEIGHT == SCREEN_HEIGHT \div GRID_SIZE

UP == <<0, 0 - 1>>
DOWN == <<0, 1>>
LEFT == <<0 - 1, 0>>
RIGHT == <<1, 0>>
Directions == {UP, DOWN, LEFT, RIGHT}

\* Python's None; like None, and unlike every direction and cell, it is falsy
None == <<>>
Truthy(v) == Len(v) > 0

BOARD_BACKGROUND_COLOR == "background"
APPLE_COLOR == "apple"
SNAKE_COLOR == "snake"

\* the events pygame.event.get() can return: QUIT, a KEYDOWN of one of the
\* four arrow keys, a KEYDOWN of any other key
Events == {"QUIT", "K_UP", "K_DOWN", "K_LEFT", "K_RIGHT", "K_OTHER"}

RECURSIVE SeqsUpTo(_, _)
SeqsUpTo(S, n) ==
    IF n = 0 THEN {<<>>}
    ELSE LET shorter == SeqsUpTo(S, n - 1)
         IN  shorter \cup {Append(s, e) : s \in {t \in shorter : Len(t) = n - 1}, e \in S}

EventQueues == SeqsUpTo(Events, MaxEvents)

---------------------------------------------------------------------------
(* GameObject, Apple *)

\* GameObject.__init__: the default position, the centre of the field
DefaultPosition == <<SCREEN_WIDTH \div 2, SCREEN_HEIGHT \div 2>>

\* variant: randint(0, GRID_WIDTH) and randint(0, GRID_HEIGHT), one cell too far
RandomPositionsInclusive ==
    {<<x * GRID_SIZE, y * GRID_SIZE>> : x \in 0..GRID_WIDTH, y \in 0..GRID_HEIGHT}

\* variant: a draw that skips the cells the snake occupies
RandomFreePositions ==
    {c \in {<<x * GRID_SIZE, y * GRID_SIZE>> : x \in 0..(GRID_WIDTH - 1), y \in 0..(GRID_HEIGHT - 1)} :
        \A i \in 1..Len(positions) : positions[i] # c}

\* Apple.randomize_position: randint(0, GRID_WIDTH - 1) * GRID_SIZE and
\* randint(0, GRID_HEIGHT - 1) * GRID_SIZE, every draw
RandomPositions ==
    {<<x * GRID_SIZE, y * GRID_SIZE>> : x \in 0..(GRID_WIDTH - 1), y \in 0..(GRID_HEIGHT - 1)}

---------------------------------------------------------------------------
(* Snake *)

\* variant: a remainder that truncates toward zero (the sign of a), as C's %
TruncMod(a, n) == IF a < 0 THEN 0 - ((0 - a) % n) ELSE a % n

\* Python's a % n for n > 0: the result has the sign of n
PyMod(a, n) == a % n

\* Snake.get_head_position
get_head_position == positions[1]

\* s[i:] of a Python list, i counted from 0
SliceFrom(s, i) == SubSeq(s, i + 1, Len(s))

\* x in s
In(x, s) == \E i \in 1..Len(s) : s[i] = x

\* Snake.move, lines 157-161: the new head
NewHead(cur, dir) ==
    <<PyMod(cur[1] + dir[1] * GRID_SIZE, SCREEN_WIDTH),
      PyMod(cur[2] + dir[2] * GRID_SIZE, SCREEN_HEIGHT)>>

\* Snake.move, line 170: positions.insert(0, new_pos)
Inserted(new_pos, ps) == <<new_pos>> \o ps

\* variant: the test made after the insertion, on the whole list
CollidesAfterInsert(new_pos, ps) == In(new_pos, SliceFrom(Inserted(new_pos, ps), 0))

\* variant: the test leaves the tail cell out, positions[2:-1]
CollidesButTail(new_pos, ps) == In(new_pos, SubSeq(ps, 3, Len(ps) - 1))

\* Snake.move, line 165: the self-collision test
Collides(new_pos, ps) == In(new_pos, SliceFrom(ps, 2))

\* variant: len(self.positions) >= self.length
PopsTailGe(ps, len) == Len(ps) >= len

\* Snake.move, line 173: whether the tail is popped
PopsTail(ps, len) == Len(ps) > len

\* variant: last names the tail whether or not it was removed
AdvancedLastIsTail(new_pos, ps, len) ==
    LET ins == Inserted(new_pos, ps)
    IN  IF PopsTail(ins, len)
        THEN [positions |-> SubSeq(ins, 1, Len(ins) - 1), last |-> ins[Len(ins)]]
        ELSE [positions |-> ins, last |-> ins[Len(ins)]]

\* Snake.move, lines 169-176: positions and last when no collision happened
Advanced(new_pos, ps, len) ==
    LET ins == Inserted(new_pos, ps)
    IN  IF PopsTail(ins, len)
        THEN [positions |-> SubSeq(ins, 1, Len(ins) - 1), last |-> ins[Len(ins)]]
        ELSE [positions |-> ins, last |-> None]

\* the opposite of a direction
Opposite(d) == <<0 - d[1], 0 - d[2]>>

\* variant: an arrow key tested against the pending request when there is one
KeyDownAgainstPending(key, dir, nd) ==
    LET ref == IF Truthy(nd) THEN nd ELSE dir
    IN  IF key = "K_UP" /\ ref # DOWN THEN UP
        ELSE IF key = "K_DOWN" /\ ref # UP THEN DOWN
        ELSE IF key = "K_LEFT" /\ ref # RIGHT THEN LEFT
        ELSE IF key = "K_RIGHT" /\ ref # LEFT THEN RIGHT
        ELSE nd

\* variant: the arrow keys without the test against the current direction
KeyDownNoFilter(key, dir, nd) ==
    IF key = "K_UP" THEN UP
    ELSE IF key = "K_DOWN" THEN DOWN
    ELSE IF key = "K_LEFT" THEN LEFT
    ELSE IF key = "K_RIGHT" THEN RIGHT
    ELSE nd

\* handle_keys, lines 220-229: one KEYDOWN event; the result is next_direction
KeyDown(key, dir, nd) ==
    IF key = "K_UP" /\ dir # DOWN THEN UP
    ELSE IF key = "K_DOWN" /\ dir # UP THEN DOWN
    ELSE IF key = "K_LEFT" /\ dir # RIGHT THEN LEFT
    ELSE IF key = "K_RIGHT" /\ dir # LEFT THEN RIGHT
    ELSE nd

\* handle_keys, lines 216-229: the loop over the drained events, from event i on;
\* a QUIT event raises SystemExit and the events after it are never looked at
RECURSIVE Drain(_, _, _, _)
Drain(evs, i, dir, nd) ==
    IF i > Len(evs) THEN [next_direction |-> nd, quit |-> FALSE]
    ELSE IF evs[i] = "QUIT" THEN [next_direction |-> nd, quit |-> TRUE]
    ELSE Drain(evs, i + 1, dir, KeyDown(evs[i], dir, nd))

\* the directions asked for by the events handle_keys looks at
RECURSIVE Requests(_, _)
Requests(evs, i) ==
    IF i > Len(evs) \/ evs[i] = "QUIT" THEN {}
    ELSE (CASE evs[i] = "K_UP" -> {UP}
            [] evs[i] = "K_DOWN" -> {DOWN}
            [] evs[i] = "K_LEFT" -> {LEFT}
            [] evs[i] = "K_RIGHT" -> {RIGHT}
            [] OTHER -> {}) \cup Requests(evs, i + 1)

NoTick == [dir0 |-> None, onlyReverse |-> FALSE, reset |-> FALSE]

NoUnit == [events |-> <<>>, phase |-> 0, len0 |-> 0]

---------------------------------------------------------------------------
(* main *)

\* main, lines 236-239: Snake() (lines 110-126), then Apple() (lines 78-83)
InitGame ==
    /\ positions = <<DefaultPosition>>
    /\ length = 1
    /\ direction = RIGHT
    /\ next_direction = None
    /\ last = None
    /\ apple \in RandomPositions
    /\ screen = {}
    /\ pc = "handle_keys"
    /\ tick = NoTick
    /\ ate = FALSE
    /\ unit = NoUnit

Init ==
    /\ screenSize = <<2 * HalfCols * GRID_SIZE, 2 * HalfRows * GRID_SIZE>>
    /\ ticksLeft = NoLimit
    /\ InitGame

\* handle_keys(snake) when pygame.event.get() returns the events evs
HandleKeysOn(evs) ==
    /\ pc = "handle_keys"
    /\ ticksLeft # 0
    /\ LET r == Drain(evs, 1, direction, next_direction)
           reqs == Requests(evs, 1)
       IN  /\ next_direction' = r.next_direction
           /\ pc' = IF r.quit THEN "quit" ELSE "update_direction"
           /\ tick' = [dir0 |-> direction,
                       onlyReverse |-> reqs = {Opposite(direction)},
                       reset |-> FALSE]
    /\ ticksLeft' = IF ticksLeft = NoLimit THEN NoLimit ELSE ticksLeft - 1
    /\ UNCHANGED <<screenSize, positions, length, direction, last, apple, screen, ate>>

\* main, line 245: handle_keys(snake) on the events waiting in the queue
HandleKeys ==
    /\ \E evs \in EventQueues : HandleKeysOn(evs)
    /\ UNCHANGED unit

\* variant: update_direction without self.next_direction = None
UpdateDirectionKeeps ==
    /\ pc = "update_direction"
    /\ direction' = IF Truthy(next_direction) THEN next_direction ELSE direction
    /\ pc' = "move"
    /\ UNCHANGED <<screenSize, positions, length, next_direction, last, apple, screen, tick,
                   ate, ticksLeft, unit>>

\* main, line 247: Snake.update_direction, lines 137-143
UpdateDirection ==
    /\ pc = "update_direction"
    /\ IF Truthy(next_direction)
       THEN /\ direction' = next_direction
            /\ next_direction' = None
       ELSE UNCHANGED <<direction, next_direction>>
    /\ pc' = "move"
    /\ UNCHANGED <<screenSize, positions, length, last, apple, screen, tick, ate, ticksLeft, unit>>

\* variant: a collision ends the game, nothing runs after it
ResetGameOver == FALSE /\ UNCHANGED <<length, positions, last, direction>>

\* Snake.reset, lines 178-185
Reset ==
    /\ length' = 1
    /\ positions' = <<DefaultPosition>>
    /\ last' = None
    /\ direction' \in Directions

\* main, line 249: Snake.move, lines 145-176
Move ==
    /\ pc = "move"
    /\ LET new_pos == NewHead(get_head_position, direction)
       IN  IF Collides(new_pos, positions)
           THEN /\ Reset
                /\ tick' = [tick EXCEPT !.reset = TRUE]
           ELSE LET a == Advanced(new_pos, positions, length)
                IN  /\ positions' = a.positions
                    /\ last' = a.last
                    /\ UNCHANGED <<length, direction, tick>>
    /\ pc' = "apple"
    /\ UNCHANGED <<screenSize, next_direction, apple, screen, ate, ticksLeft, unit>>

\* variant: no apple check on a tick in which move() has reset the snake
EatsUnlessReset == ~tick.reset /\ get_head_position = apple

\* main, line 252: the head is on the apple
Eats == get_head_position = apple

\* variant: snake.length += 2
GrowTwo(len) == len + 2

\* main, line 253: snake.length += 1
Grow(len) == len + 1

\* main, lines 251-254: the apple check
AppleCheck ==
    /\ pc = "apple"
    /\ IF Eats
       THEN /\ length < MaxLength
            /\ length' = Grow(length)
            /\ apple' \in RandomPositions
            /\ ate' = TRUE
       ELSE /\ UNCHANGED <<length, apple>>
            /\ ate' = FALSE
    /\ pc' = "draw"
    /\ UNCHANGED <<screenSize, positions, direction, next_direction, last, screen, tick, ticksLeft,
                   unit>>

\* pygame.draw.rect(screen, colour, rect) on a cell: the cell takes the colour
Paint(scr, cell, colour) ==
    {e \in scr : e[1] # cell} \cup
        (IF colour = BOARD_BACKGROUND_COLOR THEN {} ELSE {<<cell, colour>>})

RECURSIVE PaintAll(_, _, _)
PaintAll(scr, cells, colour) ==
    IF Len(cells) = 0 THEN scr
    ELSE PaintAll(Paint(scr, cells[1], colour), SubSeq(cells, 2, Len(cells)), colour)

\* Snake.draw, lines 187-206, on the screen scr
SnakeDraw(scr) ==
    LET body == PaintAll(scr, SubSeq(positions, 1, Len(positions) - 1), SNAKE_COLOR)
        head == Paint(body, positions[1], SNAKE_COLOR)
    IN  IF Truthy(last) THEN Paint(head, last, BOARD_BACKGROUND_COLOR) ELSE head

\* main, lines 256-264: screen.fill, apple.draw (lines 93-99), snake.draw; then
\* the loop starts over
Draw ==
    /\ pc = "draw"
    /\ screen' = SnakeDraw(Paint({}, apple, APPLE_COLOR))
    /\ pc' = "handle_keys"
    /\ tick' = NoTick
    /\ UNCHANGED <<screenSize, positions, length, direction, next_direction, last,
                   apple, ate, ticksLeft, unit>>

Next == HandleKeys \/ UpdateDirection \/ Move \/ AppleCheck \/ Draw

Spec == Init /\ [][Next]_vars

\* The end-to-end scenario on the field of the source: 640 x 480 pixels, the
\* apple on the cell right of the snake, ScenarioTicks iterations of the loop
ScenarioInit ==
    /\ screenSize = <<640, 480>>
    /\ ticksLeft = ScenarioTicks
    /\ InitGame
    /\ apple = <<17 * GRID_SIZE, 12 * GRID_SIZE>>

ScenarioSpec == (Init \/ ScenarioInit) /\ [][Next]_vars

---------------------------------------------------------------------------
(* The snake driven call by call *)

\* handle_keys as in main, the drained events kept for the record
HandleKeysRecorded ==
    \E evs \in EventQueues :
        /\ HandleKeysOn(evs)
        /\ unit' = [unit EXCEPT !.events = evs]

\* the directions handle_keys and update_direction can leave behind
Turns == Directions \ {Opposite(direction)}

\* between two iterations, on a snake with len(positions) = length:
\* snake.length += 1 (line 253) twice, then a direction and snake.move()
GrowTwice ==
    /\ pc = "handle_keys"
    /\ unit.phase = 0
    /\ Len(positions) = length
    /\ length' = Grow(Grow(length))
    /\ direction' \in Turns
    /\ pc' = "move"
    /\ unit' = [unit EXCEPT !.phase = 1, !.len0 = length]
    /\ UNCHANGED <<screenSize, positions, next_direction, last, apple, screen, tick, ate,
                   ticksLeft>>

\* after the first of the two calls of snake.move(): a direction and the second
MoveAgain ==
    /\ pc = "apple"
    /\ unit.phase = 1
    /\ direction' \in Turns
    /\ pc' = "move"
    /\ unit' = [unit EXCEPT !.phase = 2]
    /\ UNCHANGED <<screenSize, positions, length, next_direction, last, apple, screen, tick,
                   ate, ticksLeft>>

UnitInit ==
    /\ screenSize = <<2 * HalfCols * GRID_SIZE, 2 * HalfRows * GRID_SIZE>>
    /\ ticksLeft = UnitTicks
    /\ InitGame

UnitNext ==
    \/ unit.phase = 0 /\ HandleKeysRecorded
    \/ unit.phase = 0 /\ UpdateDirection
    \/ Move
    \/ unit.phase = 0 /\ AppleCheck
    \/ unit.phase = 0 /\ Draw
    \/ GrowTwice
    \/ MoveAgain

UnitSpec == UnitInit /\ [][UnitNext]_vars

---------------------------------------------------------------------------
(* Properties *)

\* the head move() is about to compute, and whether it lies on a segment of
\* index 2 or later, written out on the list
MoveHead == NewHead(positions[1], direction)
HeadOnBody == \E i \in 3..Len(positions) : positions[i] = MoveHead

\* the cell one step from cell c in direction d on the torus, without a remainder
WrapCoord(v, step, extent) ==
    IF v + step >= extent THEN v + step - extent
    ELSE IF v + step < 0 THEN v + step + extent
    ELSE v + step
Shifted(c, d) ==
    <<WrapCoord(c[1], d[1] * GRID_SIZE, SCREEN_WIDTH),
      WrapCoord(c[2], d[2] * GRID_SIZE, SCREEN_HEIGHT)>>

\* C1: inside move(), right after the new head is inserted, len(positions) is
\* length or length + 1; when move() returns, after a reset or not,
\* len(positions) = length.
C1_SegmentCount ==
    /\ (pc = "move" /\ ~HeadOnBody) =>
           Len(<<MoveHead>> \o positions) \in {length, length + 1}
    /\ pc = "apple" => Len(positions) = length

\* a move() that has just returned with the snake one segment longer
C1_Witness ==
    pc = "apple" /\ ~tick.reset /\ last = None /\ Len(positions) = 3 /\ length = 3

\* C2: a move() without collision puts the head one cell further in the
\* direction, each coordinate wrapped into the field and never negative; the
\* four edges wrap to the opposite edges.
C2_ToroidalWrap ==
    [][(pc = "move" /\ ~HeadOnBody) =>
          LET h == positions[1]
              n == positions'[1]
          IN  /\ n = Shifted(h, direction)
              /\ n[1] >= 0 /\ n[1] < SCREEN_WIDTH
              /\ n[2] >= 0 /\ n[2] < SCREEN_HEIGHT
              /\ (direction = RIGHT /\ h[1] = SCREEN_WIDTH - GRID_SIZE) => n = <<0, h[2]>>
              /\ (direction = LEFT /\ h[1] = 0) => n = <<SCREEN_WIDTH - GRID_SIZE, h[2]>>
              /\ (direction = UP /\ h[2] = 0) => n = <<h[1], SCREEN_HEIGHT - GRID_SIZE>>
              /\ (direction = DOWN /\ h[2] = SCREEN_HEIGHT - GRID_SIZE) => n = <<h[1], 0>>
      ]_vars

\* a snake that has just left column 0 to the LEFT (or row 0 upwards) with a body
C2_Witness ==
    /\ pc = "apple" /\ ~tick.reset /\ Len(positions) >= 2
    /\ \/ direction = LEFT /\ positions[1][1] = SCREEN_WIDTH - GRID_SIZE /\ positions[2][1] = 0
       \/ direction = UP /\ positions[1][2] = SCREEN_HEIGHT - GRID_SIZE /\ positions[2][2] = 0

\* C3 as stated: when the only direction asked for in a tick is the opposite of
\* the current one, the direction after that tick's move() is the old one and
\* the head has advanced one cell in it.
C3_Original ==
    [][(pc = "move" /\ tick.onlyReverse) =>
          /\ direction' = tick.dir0
          /\ positions'[1] = Shifted(positions[1], tick.dir0)
      ]_vars

\* C3, amended: such a request is dropped (next_direction stays None) and
\* update_direction() leaves the direction as it was; move() then runs in the
\* old direction: unless it self-collides and resets the snake, the direction
\* is unchanged after it and the head has advanced one cell in that direction.
C3_ReversalDropped ==
    /\ []((pc = "update_direction" /\ tick.onlyReverse) => next_direction = None)
    /\ []((pc = "move" /\ tick.onlyReverse) => direction = tick.dir0)
    /\ [][(pc = "move" /\ tick.onlyReverse /\ ~HeadOnBody) =>
             /\ direction' = tick.dir0
             /\ positions'[1] = Shifted(positions[1], tick.dir0)
         ]_vars

\* a snake with a body that was asked to reverse and has moved on
C3_Witness ==
    /\ pc = "apple" /\ tick.onlyReverse /\ ~tick.reset
    /\ Len(positions) >= 2 /\ direction = tick.dir0
    /\ positions[1] = Shifted(positions[2], direction)

\* C4 as stated: at the end of every tick, a tick with a reset included, the
\* direction is not the opposite of the direction the previous tick ended with
\* (the direction this tick started with).
C4_Original ==
    pc = "draw" => direction # Opposite(tick.dir0)

\* C4, amended: at the end of every tick in which move() did not reset the
\* snake, the direction is not the opposite of the direction the previous tick
\* ended with; a reset draws any of the four directions, the opposite included.
C4_NoReversalAcrossTicks ==
    /\ (pc \in {"move", "apple", "draw"} /\ ~tick.reset) => direction # Opposite(tick.dir0)
    /\ (pc = "move" /\ HeadOnBody) =>
           ENABLED (Move /\ direction' = Opposite(tick.dir0))

\* the end of a tick in which a snake with a body has turned
C4_Witness ==
    /\ pc = "draw" /\ ~tick.reset /\ Len(positions) >= 2
    /\ direction # tick.dir0

\* C5: when the head move() computes lies on a segment of index 2 or later (the
\* tail cell included), move() returns with positions the single centre cell,
\* length 1, last None, no head inserted and a direction that can be any of the
\* four; the loop goes on to the apple check.
C5_SelfCollisionReset ==
    /\ [][(pc = "move" /\ HeadOnBody) =>
             /\ positions' = <<<<SCREEN_WIDTH \div 2, SCREEN_HEIGHT \div 2>>>>
             /\ length' = 1
             /\ last' = None
             /\ direction' \in Directions
             /\ pc' = "apple"
         ]_vars
    /\ []((pc = "move" /\ HeadOnBody) =>
             \A d \in Directions : ENABLED (Move /\ direction' = d))
    /\ []((pc = "apple" /\ tick.reset) => ENABLED Next)

\* a reset that drew a direction other than the one the snake ran into itself with
C5_Witness ==
    /\ pc = "apple" /\ tick.reset
    /\ positions = <<DefaultPosition>> /\ length = 1
    /\ direction = Opposite(tick.dir0)

\* C6 as stated: on a tick in which move() has reset the snake, the apple check
\* changes nothing: length stays 1 and the apple stays where it was.
C6_Original ==
    [][(pc = "apple" /\ tick.reset) => (length' = 1 /\ apple' = apple)]_vars

\* C6, amended: move() returns right after the reset, but the loop still makes
\* its apple check on that tick: with the apple elsewhere than the grid centre
\* the tick ends with length 1 and the apple where it was, and with the apple on
\* the grid centre the reset snake consumes it: length becomes 2 and the apple
\* is drawn again.
C6_ResetTickAppleCheck ==
    [][(pc = "apple" /\ tick.reset) =>
          /\ positions' = positions
          /\ IF apple = <<SCREEN_WIDTH \div 2, SCREEN_HEIGHT \div 2>>
             THEN length' = 2 /\ ate' /\ apple' \in RandomPositions
             ELSE length' = 1 /\ ~ate' /\ apple' = apple
      ]_vars

\* the end of a tick with a reset in which the apple lay on the centre
C6_Witness ==
    pc = "draw" /\ tick.reset /\ length = 2 /\ ate /\ Len(positions) = 1

\* C7: the apple check after move(): with the head on the apple, length grows
\* by exactly 1 and the apple goes to some cell of the grid; otherwise length
\* and the apple stay; positions is not touched either way.
C7_AppleConsumption ==
    [][pc = "apple" =>
          /\ positions' = positions
          /\ IF positions[1] = apple
             THEN /\ length' = length + 1
                  /\ \E x \in 0..(GRID_WIDTH - 1), y \in 0..(GRID_HEIGHT - 1) :
                         apple' = <<x * GRID_SIZE, y * GRID_SIZE>>
             ELSE length' = length /\ apple' = apple
      ]_vars

\* an apple consumed by a snake with a body, and drawn again on another cell
C7_Witness ==
    /\ pc = "draw" /\ ate /\ ~tick.reset
    /\ Len(positions) >= 2 /\ length = Len(positions) + 1
    /\ apple # positions[1]

\* C8: the first move() after an apple was consumed, if it does not collide,
\* prepends the new head and removes no tail (one segment more, last None);
\* every other move() without collision keeps the number of segments and sets
\* last to the removed tail. On the 32 x 24 grid with the snake on cell (16,12)
\* facing RIGHT and the apple on (17,12): after the first tick the head is on
\* (17,12) and length is 2, after the second positions is [(18,12), (17,12)]
\* (no turn being asked for).
C8_LazyGrowth ==
    /\ [][(pc = "move" /\ ~HeadOnBody) =>
             IF ate
             THEN /\ positions' = <<MoveHead>> \o positions
                  /\ Len(positions') = Len(positions) + 1
                  /\ last' = None
             ELSE /\ positions' = <<MoveHead>> \o SubSeq(positions, 1, Len(positions) - 1)
                  /\ Len(positions') = Len(positions)
                  /\ last' = positions[Len(positions)]
         ]_vars
    /\ []((/\ screenSize = <<640, 480>>
           /\ ticksLeft = ScenarioTicks - 1 /\ pc = "draw"
           /\ direction = RIGHT) =>
             (positions = <<<<17 * 20, 12 * 20>>>> /\ length = 2))
    /\ []((/\ screenSize = <<640, 480>>
           /\ ticksLeft = ScenarioTicks - 2 /\ pc = "draw"
           /\ tick.dir0 = RIGHT /\ direction = RIGHT) =>
             positions = <<<<18 * 20, 12 * 20>>, <<17 * 20, 12 * 20>>>>)

\* the end of the second tick of the scenario, the snake having gone straight
C8_Witness ==
    /\ screenSize = <<640, 480>> /\ GRID_WIDTH = 32 /\ GRID_HEIGHT = 24
    /\ ticksLeft = ScenarioTicks - 2 /\ pc = "draw"
    /\ positions = <<<<360, 240>>, <<340, 240>>>> /\ last = None /\ length = 2

\* a state in which nothing has been drawn yet: the one main() starts its loop in
Started == screen # {}

\* C9 as stated: when the game starts, the apple is not on a cell of the snake.
C9_Original ==
    (pc = "handle_keys" /\ ~Started) => ~(\E i \in 1..Len(positions) : positions[i] = apple)

\* C9, amended: when the game starts, the apple is on some cell of the grid,
\* drawn without regard to the snake: it can be the centre cell the snake is on.
C9_InitialAppleOnGrid ==
    (pc = "handle_keys" /\ ~Started) =>
        /\ positions = <<<<SCREEN_WIDTH \div 2, SCREEN_HEIGHT \div 2>>>>
        /\ apple[1] % GRID_SIZE = 0 /\ apple[1] \div GRID_SIZE \in 0..(GRID_WIDTH - 1)
        /\ apple[2] % GRID_SIZE = 0 /\ apple[2] \div GRID_SIZE \in 0..(GRID_HEIGHT - 1)

\* the game starting with the apple under the snake
C9_Witness ==
    pc = "handle_keys" /\ ~Started /\ apple = positions[1] /\ Len(positions) = 1

\* C10: a move() made with 1 or 2 segments never resets the snake, whatever
\* the direction: it inserts the new head, so a snake grows from 1 to 2 to 3
\* segments without a reset.
C10_ShortSnakeNeverCollides ==
    [][(pc = "move" /\ Len(positions) <= 2) =>
          /\ ~tick'.reset
          /\ positions'[1] = Shifted(positions[1], direction)
          /\ Len(positions') >= Len(positions)
          /\ Len(positions') = length
      ]_vars

\* a snake of 2 segments that has turned and grown to 3
C10_Witness ==
    /\ pc = "apple" /\ ~tick.reset /\ Len(positions) = 3 /\ last = None
    /\ direction # tick.dir0

\* C11: the pending direction is consumed in every tick: from the return of
\* update_direction() to the end of the tick, and so at the start of the next
\* one, next_direction is None; and a request handle_keys has accepted becomes
\* the direction in the update_direction() of the same tick, the one the
\* move() of that tick uses.
C11_PendingConsumed ==
    /\ [](pc \in {"handle_keys", "move", "apple", "draw"} => next_direction = None)
    /\ [][pc = "update_direction" =>
             /\ next_direction' = None
             /\ pc' = "move"
             /\ direction' = IF next_direction # None THEN next_direction ELSE direction
         ]_vars
    /\ [][pc = "move" /\ ~HeadOnBody => direction' = direction]_vars

\* a move() about to run in a direction accepted in this very tick
C11_Witness ==
    /\ pc = "move" /\ next_direction = None
    /\ direction # tick.dir0 /\ Len(positions) >= 2

\* a cell of the grid, in pixels: multiples of GRID_SIZE inside the screen
OnGrid(c) ==
    /\ c[1] % GRID_SIZE = 0 /\ c[1] >= 0 /\ c[1] \div GRID_SIZE < GRID_WIDTH
    /\ c[2] % GRID_SIZE = 0 /\ c[2] >= 0 /\ c[2] \div GRID_SIZE < GRID_HEIGHT

\* C12: in every reachable state every segment of the snake and the apple lie
\* on a cell of the grid, positions holds at least one element and length >= 1.
C12_InsideGrid ==
    /\ Len(positions) >= 1
    /\ length >= 1
    /\ \A i \in 1..Len(positions) : OnGrid(positions[i])
    /\ OnGrid(apple)

\* a snake of 4 segments lying across the left and right edges, the apple on
\* the last cell of the grid
C12_Witness ==
    /\ Len(positions) = 4
    /\ \E i \in 1..3 : positions[i][1] = 0 /\ positions[i + 1][1] = SCREEN_WIDTH - GRID_SIZE
    /\ apple = <<SCREEN_WIDTH - GRID_SIZE, SCREEN_HEIGHT - GRID_SIZE>>

\* the one place where a run of the model ends and the program goes on: an
\* apple consumed with length = MaxLength
AtMaxLength == pc = "apple" /\ positions[1] = apple /\ length >= MaxLength

\* C13: the game never halts on its own: as long as no quit event was drained
\* the next step of the loop can be taken, after a self-collision as well; the
\* loop stops exactly when handle_keys drains a QUIT event, and that tick has
\* no update_direction, move or apple check: the snake and the apple stay as
\* they were.
C13_NeverHalts ==
    /\ []((pc # "quit" /\ ~AtMaxLength) => ENABLED Next)
    /\ []((pc = "move" /\ HeadOnBody) => ENABLED Move)
    /\ [](pc = "quit" => ~ENABLED Next)
    /\ [](pc = "handle_keys" =>
             \A evs \in EventQueues :
                 IF \E i \in 1..Len(evs) : evs[i] = "QUIT"
                 THEN ~ENABLED (HandleKeysOn(evs) /\ pc' # "quit")
                 ELSE ~ENABLED (HandleKeysOn(evs) /\ pc' = "quit"))
    /\ [][pc' = "quit" =>
             /\ pc = "handle_keys"
             /\ positions' = positions /\ length' = length /\ last' = last
             /\ direction' = direction /\ apple' = apple /\ screen' = screen
         ]_vars

\* the loop going on at the end of a tick with a self-collision
C13_Witness ==
    pc = "draw" /\ tick.reset /\ length = 1 /\ ENABLED Draw

\* C14: length incremented twice with no move() in between, then two calls of
\* move() without a collision: length is 2 more than before, neither move()
\* removes a tail, and len(positions) = length holds after the second move()
\* and not after the first.
C14_GrowthCatchUp ==
    /\ (pc = "apple" /\ unit.phase = 1 /\ ~tick.reset) =>
           /\ length = unit.len0 + 2
           /\ last = None
           /\ Len(positions) = unit.len0 + 1
           /\ Len(positions) # length
    /\ (pc = "apple" /\ unit.phase = 2 /\ ~tick.reset) =>
           /\ length = unit.len0 + 2
           /\ last = None
           /\ Len(positions) = unit.len0 + 2
           /\ Len(positions) = length

\* the second move() has returned on a snake that had 2 segments before
C14_Witness ==
    /\ pc = "apple" /\ unit.phase = 2 /\ ~tick.reset
    /\ unit.len0 = 2 /\ Len(positions) = 4 /\ length = 4

\* the cells of the grid
GridCells ==
    {<<col * GRID_SIZE, row * GRID_SIZE>> : col \in 0..(GRID_WIDTH - 1), row \in 0..(GRID_HEIGHT - 1)}

\* C15: when an apple is consumed the relocation can put the new apple on any
\* cell of the grid, the cells of the snake and the head that just ate it
\* included, and the rest of the iteration leaves the apple where it was put.
C15_AppleIgnoresSnake ==
    /\ (pc = "apple" /\ positions[1] = apple /\ length < MaxLength) =>
           \A c \in GridCells : ENABLED (AppleCheck /\ apple' = c)
    /\ pc = "draw" => ~ENABLED (Draw /\ apple' # apple)

\* an apple was consumed and the new one lies under the head of a snake with a body
C15_Witness ==
    /\ pc = "draw" /\ ate
    /\ Len(positions) >= 2
    /\ apple = positions[1]

\* what move() leaves in last: nothing after a reset or a growth, else the tail
LastAfterMove ==
    IF HeadOnBody THEN None
    ELSE IF Len(positions) + 1 > length THEN positions[Len(positions)]
    ELSE None

\* C16: move() leaves in last the tail cell it removed, or None when it removed
\* none (growth) or reset the snake; and in every reachable state last, when
\* not None, is not one of the cells in positions.
C16_LastIsRemovedTail ==
    /\ pc = "move" =>
           /\ ~ENABLED (Move /\ last' # LastAfterMove)
           /\ ~ENABLED (Move /\ ~(Truthy(last') <=>
                                    (~HeadOnBody /\ Len(positions') = Len(positions))))
    /\ Truthy(last) => \A i \in 1..Len(positions) : positions[i] # last

\* a move() has just removed the tail of a snake with a body
C16_Witness ==
    /\ pc = "apple" /\ ~tick.reset
    /\ Len(positions) >= 2
    /\ Truthy(last)

\* C17: on a grid at least 3 cells wide and high the cells in positions are
\* pairwise distinct in every reachable state, and a move() that does not
\* reset never puts the new head on the current head or on the neck.
C17_DistinctSegments ==
    (GRID_WIDTH >= 3 /\ GRID_HEIGHT >= 3) =>
        /\ \A i, j \in 1..Len(positions) : i # j => positions[i] # positions[j]
        /\ (pc = "move" /\ ~HeadOnBody) =>
               /\ MoveHead # positions[1]
               /\ Len(positions) >= 2 => MoveHead # positions[2]

\* a snake of 3 or more segments has just turned and moved without a reset
C17_Witness ==
    /\ pc = "apple" /\ ~tick.reset
    /\ Len(positions) >= 3
    /\ direction # tick.dir0
    /\ GRID_WIDTH >= 3 /\ GRID_HEIGHT >= 3

\* the direction an event asks for, None for an event that asks for none
KeyDir(e) ==
    CASE e = "K_UP" -> UP
      [] e = "K_DOWN" -> DOWN
      [] e = "K_LEFT" -> LEFT
      [] e = "K_RIGHT" -> RIGHT
      [] OTHER -> None

\* the indices of the events before the first QUIT
Looked(evs) ==
    {i \in 1..Len(evs) : \A j \in 1..i : evs[j] # "QUIT"}

\* the indices of the requests that do not reverse the direction dir
Accepted(evs, dir) ==
    {i \in Looked(evs) : Truthy(KeyDir(evs[i])) /\ KeyDir(evs[i]) # Opposite(dir)}

\* the request of the last accepted event, None when there is none
LastAccepted(evs, dir) ==
    LET acc == Accepted(evs, dir)
    IN  IF acc = {} THEN None
        ELSE KeyDir(evs[CHOOSE i \in acc : \A j \in acc : j <= i])

\* C18: of the key events drained in one tick the pending direction is the
\* request of the last one that does not reverse the committed direction (a
\* reversing request after it changes nothing), and the direction committed
\* in that tick is never the opposite of the direction at the start of the tick.
C18_LastNonReversingWins ==
    /\ (unit.phase = 0 /\ pc \in {"update_direction", "quit"}) =>
           /\ direction = tick.dir0
           /\ next_direction = LastAccepted(unit.events, direction)
    /\ (unit.phase = 0 /\ pc = "move") =>
           /\ direction # Opposite(tick.dir0)
           /\ direction = IF Accepted(unit.events, tick.dir0) = {} THEN tick.dir0
                          ELSE LastAccepted(unit.events, tick.dir0)

\* moving RIGHT, the keys UP then LEFT were drained: the snake turned UP
C18_Witness ==
    /\ unit.phase = 0 /\ pc = "move"
    /\ unit.events = <<"K_UP", "K_LEFT">>
    /\ tick.dir0 = RIGHT
    /\ direction = UP

\* the cells of the screen that show the snake colour
SnakeColoured == {e[1] : e \in {f \in screen : f[2] = SNAKE_COLOR}}

\* C19: each tick, once the screen is cleared and drawn, the cells painted in
\* the snake colour by Snake.draw are exactly the cells in positions, whatever
\* the length of the snake.  Snake.draw paints positions[:-1] and the head, so
\* this fails as soon as the snake has 2 segments: the tail cell stays unpainted.
C19_Original ==
    (pc = "handle_keys" /\ Started) =>
        SnakeColoured = {positions[i] : i \in 1..Len(positions)}

===========================================================================
